---------------------------- MODULE Spec2Model ----------------------------
(***************************************************************************)
(* img-compress: the compress and batch commands of bin/compress.js and    *)
(* ImageCompressor.compressFile / getOutputPath of lib/compressor.js.      *)
(*                                                                         *)
(* A path is a sequence of segments; a segment is a record                 *)
(* [n: name, x: extension, t: tag], so "d/a.jpg" is                        *)
(* <<[n |-> "d", x |-> "", t |-> ""], [n |-> "a", x |-> "jpg", t |-> ""]>>.*)
(* The tag tells "a.jpg" from "a_compressed.jpg" and "a.jpg.tmp<now>".     *)
(* The empty path <<>> is "." and, as an option value, the empty (falsy)   *)
(* string.  Paths are kept normalised, so two paths are the same string    *)
(* exactly when they are the same sequence.                                *)
(*                                                                         *)
(* The filesystem is fs (path -> content of a regular file) and dirs (the  *)
(* set of directories).  Every awaited fs call is one step; a call fails   *)
(* where the code's own conditions make it fail (ENOENT, EISDIR, ...) and  *)
(* may fail for an outside reason while the run has faults left.           *)
(***************************************************************************)
EXTENDS Integers, Sequences, FiniteSets, TLC

VARIABLES
  cmd,        \* "compress" | "batch": the command that was invoked
  arg,        \* compress: what fs.stat(inputPath) finds: "none" | "dir" | "file"
  argPath,    \* compress: inputPath
  globResult, \* compress: what glob(inputPath) returns when inputPath is no file or directory
  listLines,  \* batch: the lines of the list file (content.split('\n')), each a sequence of characters
  opts,       \* the resolved options
  compressor, \* this.options of the ImageCompressor in use: the effective qualities
  fs,         \* regular files: path -> content
  dirs,       \* directories
  fs0,        \* the files when the command started (never changes)
  dirs0,      \* the directories when the command started (never changes)
  files,      \* processFiles: the candidate list
  idx,        \* processFiles: i + 1, the position of the candidate in hand
  ledger,     \* processFiles: results
  pc,         \* position of the single thread of control
  caller,     \* who awaits compressFile: "single" | "files" | "none"
  cf,         \* compressFile's frame: parameters, locals, result or error
  exitCode,   \* -1 while running; the process exit code once pc = "done"
  msg,        \* the spinner's last word
  codecCalls, \* how many times sharp was asked to read or encode
  faults      \* outside failures injected so far

vars == <<cmd, arg, argPath, globResult, listLines, opts, compressor, fs, dirs, fs0, dirs0,
          files, idx, ledger, pc, caller, cf, exitCode, msg, codecCalls, faults>>

(***************************************************************************)
(* Bounds                                                                  *)
(***************************************************************************)
MaxFaults == 1      \* outside failures per run
MaxLines == 2       \* lines of a list file
MaxQualityLen == 3  \* characters of a quality option
MaxLineLen == 2     \* characters of a line

(***************************************************************************)
(* Program constants                                                       *)
(***************************************************************************)
KB == 1024
Unset == -1         \* an option that was not given (undefined)

(***************************************************************************)
(* Paths                                                                   *)
(***************************************************************************)
Seg(n, x) == [n |-> n, x |-> x, t |-> ""]

Dirname(p) == IF Len(p) = 0 THEN <<>> ELSE SubSeq(p, 1, Len(p) - 1)

Basename(p) == p[Len(p)]

Extname(p) == p[Len(p)].x

Join(a, b) == a \o b

RECURSIVE CommonPrefix(_, _)
CommonPrefix(a, b) ==
  IF Len(a) = 0 \/ Len(b) = 0 \/ Head(a) # Head(b) THEN 0
  ELSE 1 + CommonPrefix(Tail(a), Tail(b))

Relative(from, to) ==
  LET k == CommonPrefix(from, to)
  IN  [j \in 1..(Len(from) - k) |-> Seg("..", "")] \o SubSeq(to, k + 1, Len(to))

Prefixes(p) == {SubSeq(p, 1, k) : k \in 0..Len(p)}

WithTag(p, tag) == [p EXCEPT ![Len(p)].t = tag]

(***************************************************************************)
(* The files and directories the commands are run on                       *)
(***************************************************************************)
D == <<Seg("d", "")>>                       \* a directory with images
S == Join(D, <<Seg("s", "")>>)              \* its subdirectory
O == <<Seg("o", "")>>                       \* an output directory, not there yet
A_JPG == Join(D, <<Seg("a", "jpg")>>)
A_PNG == Join(D, <<Seg("a", "png")>>)
S_JPG == Join(S, <<Seg("a", "jpg")>>)
M_JPG == Join(D, <<Seg("m", "jpg")>>)       \* a path that names no file
O_JPG == Join(O, <<Seg("a", "jpg")>>)       \* an output file for one image

Images == {A_JPG, A_PNG, S_JPG}

\* The sizes an image may have, around the 1 KB a size filter is set to
FileSizes(p) ==
  IF p = A_JPG THEN {KB - 1, KB, KB + 1}
  ELSE IF p = A_PNG THEN {KB}
  ELSE {KB + 1}

Worlds ==
  {sizes \in [Images -> UNION {FileSizes(p) : p \in Images}] :
     \A p \in Images : sizes[p] \in FileSizes(p)}

Original(p, size) == [k |-> "orig", of |-> p, size |-> size]

Encoded(p, size) == [k |-> "enc", of |-> p, size |-> size]

Partial(p) == [k |-> "partial", of |-> p, size |-> 0]

(***************************************************************************)
(* formatBytes, toFixed                                                    *)
(***************************************************************************)
RoundDiv(a, b) == (2 * a + b) \div (2 * b)

RECURSIVE UnitOf(_)
UnitOf(bytes) == IF bytes < KB THEN 0 ELSE 1 + UnitOf(bytes \div KB)

UnitNames == <<"B", "KB", "MB", "GB">>

\* The string is kept as its number in hundredths and its unit; a negative
\* count gives Math.log = NaN and the string "NaN undefined".
FormatBytes(bytes) ==
  IF bytes = 0 THEN [v |-> 0, u |-> "B"]
  ELSE IF bytes < 0 THEN [v |-> Unset, u |-> "undefined"]
  ELSE LET i == UnitOf(bytes)
       IN  [v |-> RoundDiv(bytes * 100, KB ^ i), u |-> UnitNames[i + 1]]

\* ((savedBytes / originalSize) * 100).toFixed(1), in tenths of a percent
SavedPercent(savedBytes, originalSize) ==
  IF originalSize = 0 THEN Unset
  ELSE IF savedBytes >= 0 THEN RoundDiv(savedBytes * 1000, originalSize)
  ELSE 0 - RoundDiv((0 - savedBytes) * 1000, originalSize)

(***************************************************************************)
(* ImageCompressor.getOutputPath                                           *)
(***************************************************************************)
getOutputPath(inputFile, baseDir, options) ==
  LET relativePath == Relative(baseDir, inputFile)
      dir == Dirname(relativePath)
      ext == Extname(inputFile)
      name == Basename(inputFile).n
      outputDir ==
        IF options.output # <<>>
        THEN IF options.keepStructure THEN Join(options.output, dir)
             ELSE options.output
        ELSE Join(Join(baseDir, <<Seg("compressed", "")>>), dir)
      outputExt == IF options.format # "" THEN options.format ELSE ext
  IN  Join(outputDir, <<Seg(name, outputExt)>>)

(***************************************************************************)
(* Size filters                                                            *)
(***************************************************************************)
\* A variant of BelowMin that also excludes a size equal to minSize
BelowMinOrEqual(size, minSize) == size <= minSize * KB

\* sizeKB < parseFloat(options.minSize), with sizeKB = stats.size / 1024
BelowMin(size, minSize) == size < minSize * KB

\* sizeKB > parseFloat(options.maxSize)
AboveMax(size, maxSize) == size > maxSize * KB

(***************************************************************************)
(* The list file of the batch command                                      *)
(***************************************************************************)
Whitespace == {" "}

RECURSIVE TrimStart(_)
TrimStart(line) ==
  IF Len(line) > 0 /\ Head(line) \in Whitespace THEN TrimStart(Tail(line))
  ELSE line

RECURSIVE TrimEnd(_)
TrimEnd(line) ==
  IF Len(line) > 0 /\ line[Len(line)] \in Whitespace
  THEN TrimEnd(SubSeq(line, 1, Len(line) - 1))
  ELSE line

Trim(line) == TrimEnd(TrimStart(line))

StartsWithHash(line) == Len(line) > 0 /\ line[1] = "#"

KeepLine(line) == Len(line) > 0 /\ ~StartsWithHash(line)

\* A variant of ParseList that filters the lines without trimming them
ParseListNoTrim(lines) == SelectSeq(lines, KeepLine)

\* content.split('\n').map(line => line.trim()).filter(line => line && !line.startsWith('#'))
ParseList(lines) ==
  LET trimmed == [j \in 1..Len(lines) |-> Trim(lines[j])]
  IN  SelectSeq(trimmed, KeepLine)

\* The path a line of the list names: "a" and "b" stand for the text of two
\* paths of images, "m" for the text of a path that names no file; any other
\* text is a file name of its own, which names no file either.
LinePath(text) ==
  IF text = <<"a">> THEN A_JPG
  ELSE IF text = <<"b">> THEN A_PNG
  ELSE IF text = <<"m">> THEN M_JPG
  ELSE <<[n |-> text, x |-> "", t |-> ""]>>

PathsOf(lines) == [j \in 1..Len(lines) |-> LinePath(lines[j])]

(***************************************************************************)
(* Options                                                                 *)
(***************************************************************************)
\* The text of a quality option is a sequence of characters; <<>> is an
\* option that was not given (undefined).  --quality defaults to '80'.
QualityDefault == <<"8", "0">>

Options(replace, dryRun, minSize, maxSize, output, format, keepStructure) ==
  [replace |-> replace, dryRun |-> dryRun, minSize |-> minSize, maxSize |-> maxSize,
   output |-> output, format |-> format, keepStructure |-> keepStructure,
   quality |-> QualityDefault, jpgQuality |-> <<>>, pngQuality |-> <<>>,
   webpQuality |-> <<>>]

\* The compress command: --min-size defaults to '0', a set (truthy) value.
CompressOptions(outputs) ==
  {Options(r, d, mn, mx, o, f, ks) :
     r \in BOOLEAN, d \in BOOLEAN, mn \in {0, 1}, mx \in {Unset, 1},
     o \in outputs, f \in {"", "png"}, ks \in BOOLEAN}

\* The batch command declares quality, format, width, height and output only.
BatchOptions ==
  {Options(FALSE, FALSE, Unset, Unset, o, f, FALSE) : o \in {<<>>, D, O}, f \in {"", "png"}}

(***************************************************************************)
(* lib/compressor.js: the constructor of ImageCompressor                   *)
(***************************************************************************)
Digits == <<"0", "1", "2", "3", "4", "5", "6", "7", "8", "9">>

IsDigit(c) == \E d \in 1..Len(Digits) : Digits[d] = c

DigitValue(c) == (CHOOSE d \in 1..Len(Digits) : Digits[d] = c) - 1

\* A JavaScript number as far as the constructor tells numbers apart: NaN or an integer
NaN == [nan |-> TRUE, n |-> 0]

Num(n) == [nan |-> FALSE, n |-> n]

RECURSIVE LeadingDigits(_)
LeadingDigits(text) ==
  IF Len(text) > 0 /\ IsDigit(Head(text))
  THEN <<Head(text)>> \o LeadingDigits(Tail(text))
  ELSE <<>>

RECURSIVE DecimalValue(_)
DecimalValue(digits) ==
  IF digits = <<>> THEN 0
  ELSE Len(Digits) * DecimalValue(SubSeq(digits, 1, Len(digits) - 1))
         + DigitValue(digits[Len(digits)])

\* parseInt(text) with no radix: leading white space, an optional sign, then
\* the longest run of decimal digits; NaN when there is no digit.  undefined
\* reads as a text with no digit.  (The texts here hold no "x": no hex prefix.)
ParseInt(text) ==
  LET t == TrimStart(text)
      signed == Len(t) > 0 /\ Head(t) \in {"-", "+"}
      digits == LeadingDigits(IF signed THEN Tail(t) ELSE t)
  IN  IF digits = <<>> THEN NaN
      ELSE IF signed /\ Head(t) = "-" THEN Num(0 - DecimalValue(digits))
      ELSE Num(DecimalValue(digits))

\* a || b on numbers: NaN and 0 (and -0) are falsy
OrElse(a, b) == IF a.nan \/ a.n = 0 THEN b ELSE a

\* A variant of Constructor whose PNG quality ends on 80 as the others do
ConstructorPngEighty(options) ==
  [quality     |-> OrElse(ParseInt(options.quality), Num(80)).n,
   jpgQuality  |-> OrElse(ParseInt(options.jpgQuality),
                          OrElse(ParseInt(options.quality), Num(80))).n,
   pngQuality  |-> OrElse(ParseInt(options.pngQuality),
                          OrElse(ParseInt(options.quality), Num(80))).n,
   webpQuality |-> OrElse(ParseInt(options.webpQuality),
                          OrElse(ParseInt(options.quality), Num(80))).n]

\* constructor(options), lines 25-34: this.options, the four qualities
Constructor(options) ==
  [quality     |-> OrElse(ParseInt(options.quality), Num(80)).n,
   jpgQuality  |-> OrElse(ParseInt(options.jpgQuality),
                          OrElse(ParseInt(options.quality), Num(80))).n,
   pngQuality  |-> OrElse(ParseInt(options.pngQuality),
                          OrElse(ParseInt(options.quality), Num(90))).n,
   webpQuality |-> OrElse(ParseInt(options.webpQuality),
                          OrElse(ParseInt(options.quality), Num(80))).n]

\* No ImageCompressor has been constructed yet
NoCompressor == [quality |-> 0, jpgQuality |-> 0, pngQuality |-> 0, webpQuality |-> 0]

QualityChars == {"0", "1", "9", "-", "."}

\* What may follow -q on the command line
QualityTexts == UNION {[1..n -> QualityChars] : n \in 0..MaxQualityLen}

\* What may follow --jpg-quality, --png-quality, --webp-quality; <<>>: not given
FormatQualityTexts == {<<>>, <<"9">>, <<"1", "0", "1">>}

(***************************************************************************)
(* Result records, errors                                                  *)
(***************************************************************************)
NoText == [v |-> Unset, u |-> ""]

NoError == [text |-> "", base |-> <<>>]

Err(text, base) == [text |-> text, base |-> base]

\* A result object; a field the code leaves out is undefined here: "", FALSE, Unset.
\* originalBytes and compressedBytes are the locals originalSize and
\* compressedSize the object's strings are formatted from.
Blank(input) ==
  [input |-> input, error |-> NoError, skipped |-> FALSE, reason |-> "", status |-> "",
   success |-> FALSE, copied |-> FALSE, outputPath |-> <<>>,
   originalSize |-> NoText, compressedSize |-> NoText, savedBytes |-> NoText,
   savedPercent |-> Unset, originalBytes |-> Unset, compressedBytes |-> Unset]

CompressedResult(inputPath, outputPath, originalSize, compressedSize) ==
  LET savedBytes == originalSize - compressedSize
  IN  [Blank(inputPath) EXCEPT
         !.outputPath = outputPath,
         !.originalSize = FormatBytes(originalSize),
         !.compressedSize = FormatBytes(compressedSize),
         !.savedBytes = FormatBytes(savedBytes),
         !.savedPercent = SavedPercent(savedBytes, originalSize),
         !.success = TRUE,
         !.originalBytes = originalSize,
         !.compressedBytes = compressedSize]

CopiedResult(inputPath, outputPath, originalSize) ==
  [Blank(inputPath) EXCEPT
     !.outputPath = outputPath,
     !.originalSize = FormatBytes(originalSize),
     !.compressedSize = FormatBytes(originalSize),
     !.savedBytes = FormatBytes(0),
     !.savedPercent = 0,
     !.success = TRUE,
     !.copied = TRUE,
     !.reason = "Copied original (no compression benefit)",
     !.originalBytes = originalSize,
     !.compressedBytes = originalSize]

FaultCodes == {"EACCES", "EIO"}

\* A variant of Classify that passes the error code on as it is
ClassifyRaw(code) == code

\* The catch of compressFile: error.code, else error.message
Classify(code) ==
  IF code = "ENOENT" THEN "File not found"
  ELSE IF code = "EACCES" THEN "Permission denied"
  ELSE IF code = "EISDIR" THEN "Path is a directory"
  ELSE code

\* The error of a failed fs call, as caught at line 171
NoPending == [code |-> "", syscall |-> ""]

Idle ==
  [input |-> <<>>, output |-> <<>>, originalSize |-> Unset, compressedSize |-> Unset,
   tempPath |-> <<>>, pending |-> NoPending, thrown |-> NoError, result |-> Blank(<<>>)]

Frame(inputPath, outputPath) == [Idle EXCEPT !.input = inputPath, !.output = outputPath]

\* A variant of AfterEncode that writes a buffer as large as the original
AfterEncodeOnEqual(inputPath, outputPath, originalSize, compressedSize) ==
  LET savedBytes == originalSize - compressedSize
      isReplacing == outputPath = inputPath
  IN  IF savedBytes >= 0 \/ isReplacing
      THEN IF isReplacing THEN "cf_wtemp" ELSE "cf_wout"
      ELSE "cf_copy"

\* The branch compressFile takes once the buffer is there, lines 153-160, 192
AfterEncode(inputPath, outputPath, originalSize, compressedSize) ==
  LET savedBytes == originalSize - compressedSize
      isReplacing == outputPath = inputPath
  IN  IF savedBytes > 0 \/ isReplacing
      THEN IF isReplacing THEN "cf_wtemp" ELSE "cf_wout"
      ELSE "cf_copy"

(***************************************************************************)
(* Discovery in a directory                                                *)
(***************************************************************************)
Extensions ==
  <<"jpg", "jpeg", "png", "webp", "gif", "avif", "JPG", "JPEG", "PNG", "WEBP", "GIF", "AVIF">>

RECURSIVE SetToSeq(_)
SetToSeq(set) ==
  IF set = {} THEN <<>>
  ELSE LET p == CHOOSE q \in set : TRUE IN <<p>> \o SetToSeq(set \ {p})

Under(dir, p) == Len(p) > Len(dir) /\ SubSeq(p, 1, Len(dir)) = dir

\* glob(`${dir}/*.${ext}`) and glob(`${dir}/**/*.${ext}`); glob's order is its own
Glob1(present, dir, ext) == SetToSeq({p \in present : Dirname(p) = dir /\ Extname(p) = ext})

Glob2(present, dir, ext) == SetToSeq({p \in present : Under(dir, p) /\ Extname(p) = ext})

RECURSIVE AllFiles(_, _, _)
AllFiles(present, dir, k) ==
  IF k > Len(Extensions) THEN <<>>
  ELSE Glob1(present, dir, Extensions[k]) \o Glob2(present, dir, Extensions[k])
         \o AllFiles(present, dir, k + 1)

\* [...new Set(allFiles)]: the first occurrence of each
RECURSIVE Dedup(_)
Dedup(seq) ==
  IF seq = <<>> THEN <<>>
  ELSE LET front == Dedup(SubSeq(seq, 1, Len(seq) - 1))
           last == seq[Len(seq)]
       IN  IF \E j \in 1..Len(front) : front[j] = last THEN front ELSE Append(front, last)

Discover(present, dir) == Dedup(AllFiles(present, dir, 1))

\* The pre-filter of processDirectory
InSizeRange(size, options) ==
  LET minSizeKB == IF options.minSize # Unset THEN options.minSize ELSE 0
  IN  ~(BelowMin(size, minSizeKB) \/ (options.maxSize # Unset /\ AboveMax(size, options.maxSize)))

\* A variant of PreFilterApplies that never filters
PreFilterNever(options) == FALSE

\* options.minSize && parseFloat(options.minSize) > 0 || options.maxSize, line 234
PreFilterApplies(options) ==
  (options.minSize # Unset /\ options.minSize > 0) \/ options.maxSize # Unset

(***************************************************************************)
(* Initial states                                                          *)
(***************************************************************************)
Pattern == Join(D, <<Seg("*", "*")>>)       \* an inputPath that is no file or directory

GlobResults == {<<>>, <<A_JPG, A_PNG>>, <<S_JPG, A_JPG>>}

\* List files of the batch command: comment, blank line, paths, a missing file
BatchLists ==
  {<<<<"#">>, <<>>, <<"a">>, <<"b">>>>,
   <<<<" ", "a">>, <<"m">>, <<"a">>>>,
   <<<<"#", "a">>, <<" ">>>>}

Chars == {" ", "#", "a"}

Lines == UNION {[1..n -> Chars] : n \in 0..MaxLineLen}

ListFiles == UNION {[1..n -> Lines] : n \in 1..MaxLines}

InitWorld ==
  /\ \E sizes \in Worlds : fs = [p \in Images |-> Original(p, sizes[p])]
  /\ dirs = {<<>>, D, S}
  /\ fs0 = fs
  /\ dirs0 = dirs

InitRun ==
  /\ files = <<>>
  /\ idx = 1
  /\ ledger = <<>>
  /\ pc = "start"
  /\ caller = "none"
  /\ cf = Idle
  /\ exitCode = Unset
  /\ msg = ""
  /\ codecCalls = 0
  /\ faults = 0
  /\ compressor = NoCompressor

InitCompress ==
  /\ cmd = "compress"
  /\ listLines = <<>>
  /\ \/ /\ arg = "file"
        /\ argPath = A_JPG
        /\ globResult = <<>>
        /\ opts \in CompressOptions({<<>>, O_JPG, argPath})
     \/ /\ arg = "dir"
        /\ argPath = D
        /\ globResult = <<>>
        /\ opts \in CompressOptions({<<>>, D, O})
     \/ /\ arg = "none"
        /\ argPath = Pattern
        /\ globResult \in GlobResults
        /\ opts \in CompressOptions({<<>>, D, O})

InitBatch ==
  /\ cmd = "batch"
  /\ arg = "none"
  /\ argPath = <<>>
  /\ globResult = <<>>
  /\ listLines \in BatchLists
  /\ opts \in BatchOptions

\* The compress command on one file, with any quality options
InitOptions ==
  /\ InitWorld
  /\ InitRun
  /\ cmd = "compress"
  /\ listLines = <<>>
  /\ arg = "file"
  /\ argPath = A_JPG
  /\ globResult = <<>>
  /\ \E q \in QualityTexts \cup {QualityDefault}, jq, pq, wq \in FormatQualityTexts,
        d \in BOOLEAN :
        opts = [Options(FALSE, d, 0, Unset, <<>>, "", FALSE) EXCEPT
                  !.quality = q, !.jpgQuality = jq, !.pngQuality = pq, !.webpQuality = wq]

Init == InitWorld /\ InitRun /\ (InitCompress \/ InitBatch)

(***************************************************************************)
(* bin/compress.js: the actions of the two commands                        *)
(***************************************************************************)
Exit(code, word) ==
  /\ pc' = "done"
  /\ exitCode' = code
  /\ msg' = word

\* A variant of CompressAction that hands an empty match list to processFiles
CompressActionNoFailFast ==
  /\ pc = "start"
  /\ cmd = "compress"
  /\ \/ /\ arg = "none"
        /\ files' = globResult
        /\ idx' = 1
        /\ compressor' = Constructor(opts)
        /\ pc' = "pf"
     \/ /\ arg = "dir"
        /\ pc' = "pd"
        /\ UNCHANGED <<files, idx, compressor>>
     \/ /\ arg = "file"
        /\ pc' = "psf"
        /\ UNCHANGED <<files, idx, compressor>>
  /\ UNCHANGED <<cmd, arg, argPath, globResult, listLines, opts, fs, dirs, fs0, dirs0,
                 ledger, caller, cf, exitCode, msg, codecCalls, faults>>

\* program.action, lines 49-71
CompressAction ==
  /\ pc = "start"
  /\ cmd = "compress"
  /\ \/ /\ arg = "none"
        /\ globResult = <<>>
        /\ Exit(1, "Path not found")
        /\ UNCHANGED <<files, idx, compressor>>
     \/ /\ arg = "none"
        /\ globResult # <<>>
        /\ files' = globResult
        /\ idx' = 1
        /\ compressor' = Constructor(opts)
        /\ pc' = "pf"
        /\ UNCHANGED <<exitCode, msg>>
     \/ /\ arg = "dir"
        /\ pc' = "pd"
        /\ UNCHANGED <<files, idx, exitCode, msg, compressor>>
     \/ /\ arg = "file"
        /\ pc' = "psf"
        /\ UNCHANGED <<files, idx, exitCode, msg, compressor>>
  /\ UNCHANGED <<cmd, arg, argPath, globResult, listLines, opts, fs, dirs, fs0, dirs0,
                 ledger, caller, cf, codecCalls, faults>>

\* The batch command's action, lines 94-110; readFile may fail
BatchAction ==
  /\ pc = "start"
  /\ cmd = "batch"
  /\ \/ /\ faults < MaxFaults
        /\ faults' = faults + 1
        /\ Exit(1, "Error")
        /\ UNCHANGED <<files, idx, compressor>>
     \/ /\ ParseList(listLines) = <<>>
        /\ Exit(0, "No files in list")
        /\ UNCHANGED <<files, idx, faults, compressor>>
     \/ /\ ParseList(listLines) # <<>>
        /\ files' = PathsOf(ParseList(listLines))
        /\ idx' = 1
        /\ compressor' = Constructor(opts)
        /\ pc' = "pf"
        /\ UNCHANGED <<exitCode, msg, faults>>
  /\ UNCHANGED <<cmd, arg, argPath, globResult, listLines, opts, fs, dirs, fs0, dirs0,
                 ledger, caller, cf, codecCalls>>

\* processSingleFile up to the call of compressFile, lines 155-183; the
\* ImageCompressor is constructed first (line 158)
ProcessSingleFile ==
  /\ pc = "psf"
  /\ LET size == fs[argPath].size
     IN  IF opts.minSize # Unset /\ BelowMin(size, opts.minSize)
         THEN Exit(0, "Skipped (smaller)") /\ UNCHANGED <<caller, cf>>
         ELSE IF opts.maxSize # Unset /\ AboveMax(size, opts.maxSize)
         THEN Exit(0, "Skipped (larger)") /\ UNCHANGED <<caller, cf>>
         ELSE IF opts.dryRun
         THEN Exit(0, "Would compress") /\ UNCHANGED <<caller, cf>>
         ELSE /\ cf' = Frame(argPath, IF opts.replace THEN argPath ELSE opts.output)
              /\ caller' = "single"
              /\ pc' = "cf_access"
              /\ UNCHANGED <<exitCode, msg>>
  /\ compressor' = Constructor(opts)
  /\ UNCHANGED <<cmd, arg, argPath, globResult, listLines, opts, fs, dirs, fs0, dirs0,
                 files, idx, ledger, codecCalls, faults>>

\* processSingleFile after compressFile returned, lines 185-192
SingleFileResult ==
  /\ pc = "cf_ret"
  /\ caller = "single"
  /\ Exit(0, IF cf.result.success THEN "Compressed" ELSE "Skipped")
  /\ UNCHANGED <<cmd, arg, argPath, globResult, listLines, opts, fs, dirs, fs0, dirs0, compressor,
                 files, idx, ledger, caller, cf, codecCalls, faults>>

\* program.action's catch, lines 73-76
ActionCatch ==
  /\ pc = "cf_throw"
  /\ caller = "single"
  /\ Exit(1, "Error")
  /\ UNCHANGED <<cmd, arg, argPath, globResult, listLines, opts, fs, dirs, fs0, dirs0, compressor,
                 files, idx, ledger, caller, cf, codecCalls, faults>>

\* processDirectory, lines 196-267, and the entry of processFiles (line 272)
ProcessDirectory ==
  /\ pc = "pd"
  /\ LET found == Discover(DOMAIN fs, argPath)
         inRange(p) == InSizeRange(fs[p].size, opts)
         filteredFiles == IF PreFilterApplies(opts) THEN SelectSeq(found, inRange) ELSE found
     IN  IF found = <<>>
         THEN Exit(0, "No images found") /\ UNCHANGED <<files, idx, compressor>>
         ELSE IF filteredFiles = <<>>
         THEN Exit(0, "No images match size criteria") /\ UNCHANGED <<files, idx, compressor>>
         ELSE /\ files' = filteredFiles
              /\ idx' = 1
              /\ compressor' = Constructor(opts)
              /\ pc' = "pf"
              /\ UNCHANGED <<exitCode, msg>>
  /\ UNCHANGED <<cmd, arg, argPath, globResult, listLines, opts, fs, dirs, fs0, dirs0,
                 ledger, caller, cf, codecCalls, faults>>

\* A variant of Triage that looks at dryRun before anything else
TriageDryFirst(present, file, size, options) ==
  IF options.dryRun THEN "dry"
  ELSE IF ~present THEN "missing"
  ELSE IF options.minSize # Unset /\ BelowMin(size, options.minSize) THEN "small"
  ELSE IF options.maxSize # Unset /\ AboveMax(size, options.maxSize) THEN "large"
  ELSE "compress"

\* A variant of Triage that does not look at dryRun
TriageNoDry(present, file, size, options) ==
  IF ~present THEN "missing"
  ELSE IF options.minSize # Unset /\ BelowMin(size, options.minSize) THEN "small"
  ELSE IF options.maxSize # Unset /\ AboveMax(size, options.maxSize) THEN "large"
  ELSE "compress"

\* What one pass of the loop of processFiles does with a candidate before
\* compressFile: "missing" | "small" | "large" | "dry" | "compress"
Triage(present, file, size, options) ==
  IF ~present THEN "missing"
  ELSE IF options.minSize # Unset /\ BelowMin(size, options.minSize) THEN "small"
  ELSE IF options.maxSize # Unset /\ AboveMax(size, options.maxSize) THEN "large"
  ELSE IF options.dryRun THEN "dry"
  ELSE "compress"

Push(r) ==
  /\ ledger' = Append(ledger, r)
  /\ idx' = idx + 1
  /\ pc' = "pf"

\* processFiles: one pass of the loop up to the call of compressFile, lines 279-314.
\* fs.stat(file).catch(() => null): any failure of stat reads as a missing file.
ProcessFilesStep ==
  /\ pc = "pf"
  /\ idx <= Len(files)
  /\ LET file == files[idx]
     IN  \E statOk \in BOOLEAN :
           /\ statOk => file \in DOMAIN fs
           /\ ~statOk => (file \notin DOMAIN fs \/ faults < MaxFaults)
           /\ faults' = IF ~statOk /\ file \in DOMAIN fs THEN faults + 1 ELSE faults
           /\ LET size == IF statOk THEN fs[file].size ELSE 0
                  what == Triage(statOk, file, size, opts)
              IN  CASE what = "missing" ->
                         /\ Push([Blank(file) EXCEPT !.error = Err("File not found", <<>>)])
                         /\ UNCHANGED <<caller, cf>>
                    [] what = "small" ->
                         /\ Push([Blank(file) EXCEPT !.skipped = TRUE, !.reason = "Smaller than"])
                         /\ UNCHANGED <<caller, cf>>
                    [] what = "large" ->
                         /\ Push([Blank(file) EXCEPT !.skipped = TRUE, !.reason = "Larger than"])
                         /\ UNCHANGED <<caller, cf>>
                    [] what = "dry" ->
                         /\ Push([Blank(file) EXCEPT !.originalSize = FormatBytes(size),
                                                     !.originalBytes = size,
                                                     !.status = "Would compress"])
                         /\ UNCHANGED <<caller, cf>>
                    [] what = "compress" ->
                         /\ cf' = Frame(file, IF opts.replace THEN file
                                              ELSE getOutputPath(file, Dirname(file), opts))
                         /\ caller' = "files"
                         /\ pc' = "cf_access"
                         /\ UNCHANGED <<ledger, idx>>
  /\ UNCHANGED <<cmd, arg, argPath, globResult, listLines, opts, fs, dirs, fs0, dirs0, compressor,
                 files, exitCode, msg, codecCalls>>

\* processFiles after compressFile returned, lines 316-321
ProcessFilesResult ==
  /\ pc = "cf_ret"
  /\ caller = "files"
  /\ Push(cf.result)
  /\ cf' = Idle
  /\ caller' = "none"
  /\ UNCHANGED <<cmd, arg, argPath, globResult, listLines, opts, fs, dirs, fs0, dirs0, compressor,
                 files, exitCode, msg, codecCalls, faults>>

\* A variant of ProcessFilesCatch that records nothing for the failed candidate
ProcessFilesCatchNoPush ==
  /\ pc = "cf_throw"
  /\ caller = "files"
  /\ idx' = idx + 1
  /\ pc' = "pf"
  /\ cf' = Idle
  /\ caller' = "none"
  /\ UNCHANGED <<cmd, arg, argPath, globResult, listLines, opts, fs, dirs, fs0, dirs0, compressor,
                 files, ledger, exitCode, msg, codecCalls, faults>>

\* A variant of ProcessFilesCatch that lets the error through to the command
ProcessFilesCatchRethrow ==
  /\ pc = "cf_throw"
  /\ caller = "files"
  /\ Exit(1, "Error")
  /\ UNCHANGED <<cmd, arg, argPath, globResult, listLines, opts, fs, dirs, fs0, dirs0, compressor,
                 files, idx, ledger, caller, cf, codecCalls, faults>>

\* The catch of the loop of processFiles, lines 324-333
ProcessFilesCatch ==
  /\ pc = "cf_throw"
  /\ caller = "files"
  /\ Push([Blank(files[idx]) EXCEPT !.error = cf.thrown])
  /\ cf' = Idle
  /\ caller' = "none"
  /\ UNCHANGED <<cmd, arg, argPath, globResult, listLines, opts, fs, dirs, fs0, dirs0, compressor,
                 files, exitCode, msg, codecCalls, faults>>

\* processFiles after the loop, lines 336-346
ProcessFilesDone ==
  /\ pc = "pf"
  /\ idx > Len(files)
  /\ Exit(0, "Completed")
  /\ UNCHANGED <<cmd, arg, argPath, globResult, listLines, opts, fs, dirs, fs0, dirs0, compressor,
                 files, idx, ledger, caller, cf, codecCalls, faults>>

(***************************************************************************)
(* bin/compress.js: displayResults, which the last step of processFiles    *)
(* calls on the ledger; it changes nothing, so it is an operator           *)
(***************************************************************************)
UnitIndex(u) == CHOOSE i \in 1..Len(UnitNames) : UnitNames[i] = u

\* parseBytes(str), lines 450-461, in hundredths of a byte: 0 for a string
\* that is missing or does not match, else value * multipliers[unit]
ParseBytes(text) ==
  IF text.v < 0 \/ ~(\E i \in 1..Len(UnitNames) : UnitNames[i] = text.u) THEN 0
  ELSE text.v * KB ^ (UnitIndex(text.u) - 1)

NoTotals ==
  [totalOriginalBytes |-> 0, totalCompressedBytes |-> 0, successCount |-> 0,
   copiedCount |-> 0, compressedCount |-> 0]

\* The body of results.forEach, lines 364-425: what one result adds
Tally(t, r) ==
  IF r.error # NoError \/ r.skipped \/ r.status = "Would compress" \/ ~r.success THEN t
  ELSE LET origBytes == ParseBytes(r.originalSize)
           compBytes == ParseBytes(r.compressedSize)
           counted == origBytes # 0 /\ compBytes # 0
       IN  [totalOriginalBytes   |-> t.totalOriginalBytes + (IF counted THEN origBytes ELSE 0),
            totalCompressedBytes |-> t.totalCompressedBytes + (IF counted THEN compBytes ELSE 0),
            successCount    |-> t.successCount + 1,
            copiedCount     |-> t.copiedCount + (IF r.copied THEN 1 ELSE 0),
            compressedCount |-> t.compressedCount + (IF r.copied THEN 0 ELSE 1)]

\* displayResults(results), lines 358-425: the totals, bytes in hundredths
RECURSIVE Totals(_)
Totals(results) ==
  IF results = <<>> THEN NoTotals
  ELSE Tally(Totals(SubSeq(results, 1, Len(results) - 1)), results[Len(results)])

\* The summary's savedPercent, lines 432-435, in tenths of a percent
TotalSavedPercent(t) ==
  IF t.totalOriginalBytes > 0
  THEN SavedPercent(t.totalOriginalBytes - t.totalCompressedBytes, t.totalOriginalBytes)
  ELSE 0

(***************************************************************************)
(* lib/compressor.js: compressFile, one action per awaited call            *)
(***************************************************************************)
Rest == <<cmd, arg, argPath, globResult, listLines, opts, compressor, fs0, dirs0,
          files, idx, ledger, caller, exitCode, msg>>

\* An error reaches the catch of lines 213-220, which wraps and rethrows it.
Throw(code) ==
  /\ cf' = [cf EXCEPT !.thrown = Err(Classify(code), <<Basename(cf.input)>>)]
  /\ pc' = "cf_throw"

Fault == faults < MaxFaults /\ faults' = faults + 1

Remove(f, p) == [q \in (DOMAIN f) \ {p} |-> f[q]]

Put(f, p, content) == [q \in (DOMAIN f) \cup {p} |-> IF q = p THEN content ELSE f[q]]

\* fs.access, fs.stat and the default output path, lines 46-56
AccessInput ==
  /\ pc = "cf_access"
  /\ \/ /\ cf.input \notin DOMAIN fs
        /\ Throw("ENOENT")
        /\ UNCHANGED faults
     \/ /\ cf.input \in DOMAIN fs
        /\ Fault
        /\ \E code \in FaultCodes : Throw(code)
     \/ /\ cf.input \in DOMAIN fs
        /\ cf' = [cf EXCEPT
                    !.originalSize = fs[cf.input].size,
                    !.output = IF cf.output = <<>> THEN WithTag(cf.input, "compressed")
                               ELSE cf.output]
        /\ pc' = "cf_mkdir"
        /\ UNCHANGED faults
  /\ UNCHANGED <<fs, dirs, codecCalls>>
  /\ UNCHANGED Rest

\* fs.mkdir(outputDir, { recursive: true }), lines 59-60
MakeOutputDir ==
  /\ pc = "cf_mkdir"
  /\ LET outputDir == Dirname(cf.output)
     IN  \/ /\ Prefixes(outputDir) \cap DOMAIN fs # {}
            /\ Throw("ENOTDIR")
            /\ UNCHANGED <<dirs, faults>>
         \/ /\ Prefixes(outputDir) \cap DOMAIN fs = {}
            /\ Fault
            /\ \E code \in FaultCodes : Throw(code)
            /\ UNCHANGED dirs
         \/ /\ Prefixes(outputDir) \cap DOMAIN fs = {}
            /\ dirs' = dirs \cup Prefixes(outputDir)
            /\ pc' = "cf_encode"
            /\ UNCHANGED <<cf, faults>>
  /\ UNCHANGED <<fs, codecCalls>>
  /\ UNCHANGED Rest

\* sharp: metadata, the pipeline and toBuffer, lines 63-157.  The codec
\* rejects the image, or returns a buffer smaller than, as large as or larger
\* than the original.
Encode ==
  /\ pc = "cf_encode"
  /\ codecCalls' = codecCalls + 1
  /\ \/ Throw("Input file contains unsupported image format")
     \/ \E compressedSize \in {cf.originalSize - 1, cf.originalSize, cf.originalSize + 1} :
          /\ cf' = [cf EXCEPT !.compressedSize = compressedSize]
          /\ pc' = AfterEncode(cf.input, cf.output, cf.originalSize, compressedSize)
  /\ UNCHANGED <<fs, dirs, faults>>
  /\ UNCHANGED Rest

\* writeFile: done, or failed with nothing written or with part of the file written
WriteOutcome(path, content, next) ==
  \/ /\ path \notin dirs
     /\ fs' = Put(fs, path, content)
     /\ next
     /\ UNCHANGED faults
  \/ /\ path \in dirs
     /\ Throw("EISDIR")
     /\ UNCHANGED <<fs, faults>>
  \/ /\ path \notin dirs
     /\ Fault
     /\ \E code \in FaultCodes : Throw(code)
     /\ \/ UNCHANGED fs
        \/ fs' = Put(fs, path, Partial(content.of))

Return(result) ==
  /\ cf' = [cf EXCEPT !.result = result]
  /\ pc' = "cf_ret"

\* fs.writeFile(tempPath, buffer), lines 163-164
WriteTemp ==
  /\ pc = "cf_wtemp"
  /\ LET tempPath == WithTag(cf.output, "tmp")
     IN  WriteOutcome(tempPath, Encoded(cf.input, cf.compressedSize),
                      /\ cf' = [cf EXCEPT !.tempPath = tempPath]
                      /\ pc' = "cf_unlink")
  /\ UNCHANGED <<dirs, codecCalls>>
  /\ UNCHANGED Rest

\* fs.unlink(outputPath), line 169
UnlinkOriginal ==
  /\ pc = "cf_unlink"
  /\ \/ /\ cf.output \notin DOMAIN fs
        /\ cf' = [cf EXCEPT !.pending = [code |-> "ENOENT", syscall |-> "unlink"]]
        /\ pc' = "cf_cleanup"
        /\ UNCHANGED <<fs, faults>>
     \/ /\ cf.output \in DOMAIN fs
        /\ Fault
        /\ \E code \in FaultCodes :
             cf' = [cf EXCEPT !.pending = [code |-> code, syscall |-> "unlink"]]
        /\ pc' = "cf_cleanup"
        /\ UNCHANGED fs
     \/ /\ cf.output \in DOMAIN fs
        /\ fs' = Remove(fs, cf.output)
        /\ pc' = "cf_rename"
        /\ UNCHANGED <<cf, faults>>
  /\ UNCHANGED <<dirs, codecCalls>>
  /\ UNCHANGED Rest

\* fs.rename(tempPath, outputPath) and the return, lines 170, 183-191
RenameTemp ==
  /\ pc = "cf_rename"
  /\ \/ /\ Fault
        /\ \E code \in FaultCodes :
             cf' = [cf EXCEPT !.pending = [code |-> code, syscall |-> "rename"]]
        /\ pc' = "cf_cleanup"
        /\ UNCHANGED fs
     \/ /\ fs' = Remove(Put(fs, cf.output, fs[cf.tempPath]), cf.tempPath)
        /\ Return(CompressedResult(cf.input, cf.output, cf.originalSize, cf.compressedSize))
        /\ UNCHANGED faults
  /\ UNCHANGED <<dirs, codecCalls>>
  /\ UNCHANGED Rest

\* The catch of lines 171-177: unlink the temporary file, whose own failure
\* is swallowed, and rethrow
CleanupTemp ==
  /\ pc = "cf_cleanup"
  /\ \/ /\ Fault
        /\ UNCHANGED fs
     \/ /\ fs' = Remove(fs, cf.tempPath)
        /\ UNCHANGED faults
  /\ Throw(cf.pending.code)
  /\ UNCHANGED <<dirs, codecCalls>>
  /\ UNCHANGED Rest

\* fs.writeFile(outputPath, buffer) and the return, lines 180, 183-191
WriteOutput ==
  /\ pc = "cf_wout"
  /\ WriteOutcome(cf.output, Encoded(cf.input, cf.compressedSize),
                  Return(CompressedResult(cf.input, cf.output, cf.originalSize,
                                          cf.compressedSize)))
  /\ UNCHANGED <<dirs, codecCalls>>
  /\ UNCHANGED Rest

\* The branch without a saving, lines 192-211: fs.copyFile unless the output
\* is the input, and the return
CopyOriginal ==
  /\ pc = "cf_copy"
  /\ IF cf.output # cf.input
     THEN \/ /\ cf.input \notin DOMAIN fs
             /\ Throw("ENOENT")
             /\ UNCHANGED <<fs, faults>>
          \/ /\ cf.input \in DOMAIN fs
             /\ WriteOutcome(cf.output, fs[cf.input],
                             Return(CopiedResult(cf.input, cf.output, cf.originalSize)))
     ELSE /\ Return(CopiedResult(cf.input, cf.output, cf.originalSize))
          /\ UNCHANGED <<fs, faults>>
  /\ UNCHANGED <<dirs, codecCalls>>
  /\ UNCHANGED Rest

(***************************************************************************)
(* Specifications                                                          *)
(***************************************************************************)
Next ==
  \/ CompressAction
  \/ BatchAction
  \/ ProcessSingleFile
  \/ SingleFileResult
  \/ ActionCatch
  \/ ProcessDirectory
  \/ ProcessFilesStep
  \/ ProcessFilesResult
  \/ ProcessFilesCatch
  \/ ProcessFilesDone
  \/ AccessInput
  \/ MakeOutputDir
  \/ Encode
  \/ WriteTemp
  \/ UnlinkOriginal
  \/ RenameTemp
  \/ CleanupTemp
  \/ WriteOutput
  \/ CopyOriginal

Spec == Init /\ [][Next]_vars

\* The batch command reading every list file within the bounds
InitList ==
  /\ InitWorld
  /\ InitRun
  /\ cmd = "batch"
  /\ arg = "none"
  /\ argPath = <<>>
  /\ globResult = <<>>
  /\ listLines \in ListFiles
  /\ opts = Options(FALSE, FALSE, Unset, Unset, <<>>, "", FALSE)

NextList == BatchAction

SpecList == InitList /\ [][NextList]_vars

\* The compress command on one file, for the qualities the constructor computes
NextOptions == CompressAction \/ ProcessSingleFile

SpecOptions == InitOptions /\ [][NextOptions]_vars

(***************************************************************************)
(* Properties                                                              *)
(***************************************************************************)
Range(seq) == {seq[j] : j \in 1..Len(seq)}

IsCompressed(r) == r.success /\ ~r.copied

IsCopied(r) == r.success /\ r.copied

IsFailed(r) == r.error # NoError

\* compressFile has finished, with a result or with an error
Finished == pc \in {"cf_ret", "cf_throw"}

InPlace == cf.input # <<>> /\ cf.output = cf.input

\* C1: every outcome compressFile returns as Compressed (success without the
\* copied flag) has compressedBytes < originalBytes, and a buffer that is not
\* strictly smaller than the original gives a Copied outcome, for every
\* output path, the input path included.
C1_NeverGrow ==
  /\ \A k \in 1..Len(ledger) :
       IsCompressed(ledger[k]) => ledger[k].compressedBytes < ledger[k].originalBytes
  /\ pc = "cf_ret" =>
       /\ IsCompressed(cf.result) => cf.result.compressedBytes < cf.result.originalBytes
       /\ cf.compressedSize >= cf.originalSize => IsCopied(cf.result)

\* C2: when the rename of an in-place replacement has failed and compressFile
\* has finished, the original path holds the original content or the complete
\* new content: it is not missing, truncated or empty.
C2_InPlaceSafe ==
  (Finished /\ InPlace /\ cf.pending.syscall = "rename") =>
     /\ cf.input \in DOMAIN fs
     /\ \/ fs[cf.input] = Encoded(cf.input, cf.compressedSize)
        \/ fs[cf.input].k # "partial" /\ fs[cf.input].size = cf.originalSize

\* The input files of the run
Inputs == IF arg = "file" THEN {argPath} ELSE Range(files) \cap DOMAIN fs0

\* C3: without the replace option no input file is ever overwritten, deleted
\* or changed, for any output, format and keepStructure and any candidates.
C3_InputsUntouched ==
  ~opts.replace => \A p \in Inputs : p \in DOMAIN fs /\ fs[p] = fs0[p]

\* C4: processFiles handles every candidate: the ledger grows by exactly one
\* outcome per candidate, in candidate order, and once processFiles has
\* finished it holds one outcome for each candidate, whichever of them are
\* missing, skipped or fail in the codec or in file I/O.
C4_CompleteLedger ==
  /\ Len(ledger) = idx - 1
  /\ Len(ledger) <= Len(files)
  /\ \A k \in 1..Len(ledger) : ledger[k].input = files[k]
  /\ (pc = "done" /\ files # <<>>) => Len(ledger) = Len(files)

\* C4 witness: a finished run whose first candidate failed in compressFile,
\* whose second was missing and whose third went through
C4_Witness ==
  /\ pc = "done"
  /\ Len(files) = 3
  /\ Len(ledger) = 3
  /\ IsFailed(ledger[1]) /\ ledger[1].error.base # <<>>
  /\ ledger[2].error = Err("File not found", <<>>)
  /\ ledger[3].success

\* C5: with dryRun set the codec is never invoked and no file or directory is
\* created, written, renamed or deleted: the filesystem stays what it was.
C5_DryRunFrame ==
  opts.dryRun => fs = fs0 /\ dirs = dirs0 /\ codecCalls = 0

\* C5 witness: a finished dry run over two candidates that would be compressed
C5_Witness ==
  /\ opts.dryRun
  /\ pc = "done"
  /\ Len(ledger) = 2
  /\ \A k \in 1..2 : ledger[k].status = "Would compress"

\* A size in bytes is outside the filters: under minSize KB or over maxSize KB
OutOfRange(size) ==
  \/ opts.minSize # Unset /\ size < opts.minSize * 1024
  \/ opts.maxSize # Unset /\ size > opts.maxSize * 1024

C6_Files ==
  (pc = "pf" /\ idx <= Len(files) /\ files[idx] \in DOMAIN fs /\ faults' = faults) =>
     LET size == fs[files[idx]].size
         skippedNow == Len(ledger') = Len(ledger) + 1 /\ ledger'[Len(ledger')].skipped
     IN  skippedNow <=> OutOfRange(size)

C6_Single ==
  pc = "psf" =>
     ((msg' \in {"Skipped (smaller)", "Skipped (larger)"}) <=> OutOfRange(fs[argPath].size))

C6_Directory ==
  pc = "pd" =>
     \A p \in {q \in DOMAIN fs : Under(argPath, q)} :
        (p \in Range(files')) <=> ~OutOfRange(fs[p].size)

ResolvesToFiles ==
  \/ arg = "file"
  \/ arg = "dir" /\ Discover(DOMAIN fs0, argPath) # <<>>
  \/ arg = "none" /\ globResult # <<>>

\* C7 as stated: the compress command exits with code 0 whenever the path
\* resolves to at least one file, also when processing of files fails, for a
\* single file, a directory and a pattern alike; it exits with code 1 only
\* when the path resolves to no files or does not exist.
C7_ExitZero ==
  (pc = "done" /\ cmd = "compress") =>
     /\ ResolvesToFiles => exitCode = 0
     /\ exitCode = 1 => ~ResolvesToFiles

\* C7 amended: the compress command exits with code 0 whenever the path is a
\* directory, or a pattern that matches at least one file, also when
\* processing of files fails; for a single file it exits with code 0 unless
\* compressFile raises an error, and then with code 1; it exits with code 1
\* when the path does not exist and matches no files.
C7_ExitCodes ==
  (pc = "done" /\ cmd = "compress") =>
     /\ exitCode \in {0, 1}
     /\ exitCode = 1 <=>
          \/ arg = "none" /\ globResult = <<>>
          \/ arg = "file" /\ cf.thrown # NoError

\* C7 witness: a directory run that ended with code 0 and a failed candidate
C7_Witness ==
  /\ pc = "done"
  /\ cmd = "compress"
  /\ arg = "dir"
  /\ exitCode = 0
  /\ \E k \in 1..Len(ledger) : IsFailed(ledger[k])

\* C8: when an in-place replacement has ended, with a result or with an
\* error raised at any step, its temporary file is not on the filesystem.
C8_NoTempLeft ==
  (Finished /\ InPlace) => WithTag(cf.output, "tmp") \notin DOMAIN fs

\* C9: when the input path is no file or directory and matches no files as a
\* pattern, the compress command ends with "Path not found" and exit code 1
\* before any candidate is processed: no codec call, no file write, no
\* ledger entry.
C9_FailFast ==
  (cmd = "compress" /\ arg = "none" /\ globResult = <<>>) =>
     /\ pc \in {"start", "done"}
     /\ files = <<>> /\ ledger = <<>>
     /\ codecCalls = 0
     /\ fs = fs0 /\ dirs = dirs0
     /\ pc = "done" => (exitCode = 1 /\ msg = "Path not found")

\* C9 witness: the command has ended on a pattern without matches
C9_Witness ==
  /\ cmd = "compress" /\ arg = "none" /\ globResult = <<>>
  /\ pc = "done"
  /\ exitCode = 1

Spaces(n) == [j \in 1..n |-> " "]

\* text is line without its leading and trailing blanks
IsTrimOf(text, line) ==
  /\ \E i, j \in 0..Len(line) : line = Spaces(i) \o text \o Spaces(j)
  /\ text # <<>> => (text[1] # " " /\ text[Len(text)] # " ")

TrimOf(line) ==
  CHOOSE text \in {SubSeq(line, i, j) : i \in 1..(Len(line) + 1), j \in 0..Len(line)} :
    IsTrimOf(text, line)

\* The lines that count, trimmed, in file order
RECURSIVE Candidates(_)
Candidates(lines) ==
  IF lines = <<>> THEN <<>>
  ELSE LET text == TrimOf(Head(lines))
       IN  (IF text = <<>> \/ text[1] = "#" THEN <<>> ELSE <<text>>) \o Candidates(Tail(lines))

\* C10: for the batch command the candidate list is exactly the sequence of
\* the lines of the list file that, once trimmed, are not blank and do not
\* begin with '#', in file order: blank lines and comment lines never become
\* candidates and no other line is dropped.
C10_ListCandidates ==
  (cmd = "batch" /\ pc # "start" /\ msg # "Error") =>
     /\ files = PathsOf(Candidates(listLines))
     /\ pc = "done" <=> Candidates(listLines) = <<>>

\* C10 witness: a comment line and a path with a blank in front of it
C10_Witness ==
  /\ cmd = "batch"
  /\ pc = "pf"
  /\ listLines = <<<<"#", "a">>, <<" ", "a">>>>
  /\ files = <<A_JPG>>

\* The output path that keeps the tree: the output directory joined with the
\* directory of the file relative to the input directory
TreePath(inputFile) ==
  Join(Join(opts.output, Dirname(Relative(argPath, inputFile))),
       <<Seg(Basename(inputFile).n,
             IF opts.format # "" THEN opts.format ELSE Extname(inputFile))>>)

\* C11: with an output directory and keepStructure, a run over a directory
\* writes each input file to the output directory joined with the file's
\* directory relative to the input directory, so that two input files in
\* different subdirectories get output paths in different subdirectories of
\* the output directory.
C11_TreeKept ==
  (arg = "dir" /\ opts.output # <<>> /\ opts.keepStructure /\ ~opts.replace) =>
     /\ \A k \in 1..Len(ledger) :
          ledger[k].success => ledger[k].outputPath = TreePath(ledger[k].input)
     /\ \A j, k \in 1..Len(ledger) :
          (/\ ledger[j].success /\ ledger[k].success
           /\ Dirname(ledger[j].input) # Dirname(ledger[k].input)) =>
             Dirname(ledger[j].outputPath) # Dirname(ledger[k].outputPath)

(***************************************************************************)
(* The qualities of the constructor                                        *)
(***************************************************************************)
Constructed == compressor # NoCompressor

\* C12: once the ImageCompressor is constructed, each of its four effective
\* quality values lies in 1..100, whatever quality options were supplied.
C12_QualityInRange ==
  Constructed =>
    /\ compressor.quality \in 1..100
    /\ compressor.jpgQuality \in 1..100
    /\ compressor.pngQuality \in 1..100
    /\ compressor.webpQuality \in 1..100

GeneralUsable == ~ParseInt(opts.quality).nan /\ ParseInt(opts.quality).n # 0

Reported == pc = "done" /\ msg = "Completed"

RECURSIVE SumOriginal(_)
SumOriginal(results) ==
  IF results = <<>> THEN 0
  ELSE SumOriginal(Tail(results))
         + (IF IsCompressed(Head(results)) \/ IsCopied(Head(results))
            THEN Head(results).originalBytes ELSE 0)

RECURSIVE SumFinal(_)
SumFinal(results) ==
  IF results = <<>> THEN 0
  ELSE SumFinal(Tail(results))
         + (IF IsCompressed(Head(results)) THEN Head(results).compressedBytes
            ELSE IF IsCopied(Head(results)) THEN Head(results).originalBytes
            ELSE 0)

\* C14: when the reporter has run, its total of original bytes is the sum of
\* the original bytes of the Compressed and Copied outcomes of the ledger,
\* its total of final bytes is the sum of their compressed or retained
\* bytes, Skipped and Failed outcomes add nothing, and savedPercent is 0
\* when the total of original bytes is 0.  (Totals are in hundredths.)
C14_TotalsAreSums ==
  Reported =>
    /\ Totals(ledger).totalOriginalBytes = 100 * SumOriginal(ledger)
    /\ Totals(ledger).totalCompressedBytes = 100 * SumFinal(ledger)
    /\ Totals(ledger).totalOriginalBytes = 0 => TotalSavedPercent(Totals(ledger)) = 0

(***************************************************************************)
(* Candidates the size filters exclude                                     *)
(***************************************************************************)
\* The candidates the run discovered
Discovered ==
  IF cmd = "batch" THEN Range(PathsOf(ParseList(listLines)))
  ELSE IF arg = "dir" THEN Range(Discover(DOMAIN fs0, argPath))
  ELSE IF arg = "none" THEN Range(globResult)
  ELSE {argPath}

SkipReason(size) ==
  IF opts.minSize # Unset /\ BelowMin(size, opts.minSize) THEN "Smaller than"
  ELSE "Larger than"

IsSkippedFor(r, p, size) ==
  r.input = p /\ r.skipped /\ r.reason = SkipReason(size) /\ ~r.success /\ ~IsFailed(r)

\* C15 as stated: when a run over a directory, a pattern or a list has ended,
\* every discovered candidate that exists and that a size filter excludes
\* has a Skipped outcome with the specific reason in the ledger.
C15_ExcludedInLedger ==
  (pc = "done" /\ exitCode = 0 /\ (cmd = "batch" \/ arg # "file")) =>
     \A p \in Discovered \cap DOMAIN fs0 :
        OutOfRange(fs0[p].size) =>
          \E k \in 1..Len(ledger) : IsSkippedFor(ledger[k], p, fs0[p].size)

\* The loop of processFiles (pattern and list input, and what is left of a
\* directory): a candidate that exists and is out of range gets one Skipped
\* outcome with the specific reason
C15_Files ==
  (pc = "pf" /\ idx <= Len(files) /\ files[idx] \in DOMAIN fs /\ faults' = faults
     /\ OutOfRange(fs[files[idx]].size)) =>
       /\ Len(ledger') = Len(ledger) + 1
       /\ SubSeq(ledger', 1, Len(ledger)) = ledger
       /\ IsSkippedFor(ledger'[Len(ledger')], files[idx], fs[files[idx]].size)

\* Directory input: when a filter is in force, a discovered file that is out
\* of range is dropped from the candidate list and nothing enters the ledger
C15_Directory ==
  pc = "pd" =>
     /\ ledger' = ledger
     /\ \A p \in Range(Discover(DOMAIN fs, argPath)) :
          OutOfRange(fs[p].size) => p \notin Range(files')

\* Every outcome of the ledger is for a file of the candidate list
C15_LedgerOfFiles == \A k \in 1..Len(ledger') : ledger'[k].input \in Range(files')

\* C15 amended: with pattern or list input every existing candidate that a
\* size filter excludes gets a Skipped outcome with the specific reason;
\* with directory input the excluded files are dropped before the loop and
\* get no outcome in the ledger.
C15_SkippedOrDropped == [][C15_Files /\ C15_Directory /\ C15_LedgerOfFiles]_vars

\* C15 witness: a run over a directory has ended with an outcome for one
\* file, and none for another that a size filter excluded
C15_Witness ==
  /\ pc = "done" /\ arg = "dir" /\ Len(ledger) > 0
  /\ \E p \in Discovered :
       /\ OutOfRange(fs0[p].size)
       /\ \A k \in 1..Len(ledger) : ledger[k].input # p

(***************************************************************************)
(* The ledger of a dry run                                                 *)
(***************************************************************************)
IsWouldCompress(r) ==
  r.status = "Would compress" /\ ~r.skipped /\ ~r.success /\ ~r.copied /\ ~IsFailed(r)

\* C16 as stated: with dryRun set every outcome of the ledger is a
\* would-compress entry, and the summary counts nothing as compressed or copied.
C16_OnlyWouldCompress ==
  opts.dryRun =>
    /\ \A k \in 1..Len(ledger) : IsWouldCompress(ledger[k])
    /\ Totals(ledger) = NoTotals

\* C16 amended: with dryRun set no outcome is Compressed or Copied and the
\* summary counts none; an outcome is a would-compress entry with the file's
\* size for a candidate that exists and is within the size filters, a
\* Skipped entry with the size reason for a candidate that exists and is out
\* of range, and a Failed 'File not found' entry for a candidate whose stat fails.
C16_DryRunLedger ==
  opts.dryRun =>
    /\ Totals(ledger) = NoTotals
    /\ \A k \in 1..Len(ledger) :
         LET r == ledger[k]
             p == r.input
         IN  /\ ~r.success /\ ~r.copied
             /\ \/ /\ IsWouldCompress(r)
                   /\ p \in DOMAIN fs0
                   /\ ~OutOfRange(fs0[p].size)
                   /\ r.originalBytes = fs0[p].size
                   /\ r.originalSize = FormatBytes(fs0[p].size)
                \/ /\ p \in DOMAIN fs0
                   /\ OutOfRange(fs0[p].size)
                   /\ IsSkippedFor(r, p, fs0[p].size)
                   /\ r.status = ""
                \/ /\ r.error = Err("File not found", <<>>)
                   /\ ~r.skipped /\ r.status = ""
                   /\ p \notin DOMAIN fs0 \/ faults > 0

\* C16 witness: a finished dry run whose ledger holds a Skipped outcome with
\* a size reason and a would-compress outcome
C16_Witness ==
  /\ opts.dryRun /\ pc = "done" /\ Len(ledger) = 2
  /\ \E j, k \in 1..2 : ledger[j].skipped /\ IsWouldCompress(ledger[k])

(***************************************************************************)
(* The copy when there is no saving                                        *)
(***************************************************************************)
\* Once the buffer is there, not smaller than the original, and the output
\* is not the input, compressFile goes on to the copy
C17_Branch ==
  (pc = "cf_encode" /\ pc' # "cf_throw" /\ cf.output # cf.input
     /\ cf'.compressedSize >= cf.originalSize) =>
       pc' = "cf_copy" /\ fs' = fs

\* The copy, when it returns, has put the input's bytes at the output and
\* nothing else, and the result is the Copied outcome
C17_Copy ==
  (pc = "cf_copy" /\ cf.output # cf.input /\ pc' = "cf_ret") =>
     /\ cf.compressedSize >= cf.originalSize
     /\ cf.input \in DOMAIN fs
     /\ fs' = Put(fs, cf.output, fs[cf.input])
     /\ fs'[cf.input] = fs[cf.input]
     /\ fs'[cf.output] = fs[cf.input]
     /\ IsCopied(cf'.result)
     /\ cf'.result.input = cf.input
     /\ cf'.result.outputPath = cf.output
     /\ cf'.result.originalBytes = cf.originalSize
     /\ cf'.result.compressedBytes = cf.originalSize
     /\ cf'.result.compressedSize = cf'.result.originalSize
     /\ cf'.result.originalSize = FormatBytes(cf.originalSize)
     /\ cf'.result.savedBytes = FormatBytes(0)
     /\ cf'.result.savedPercent = 0

\* C17: when the encoded buffer is not smaller than the original and the
\* output path is not the input path, compressFile takes the copy branch,
\* and when it returns the output path holds an exact copy of the input's
\* bytes, the input is untouched, and the result is a Copied outcome whose
\* compressed size is the original size, with zero bytes saved.
C17_CopiedVerbatim == [][C17_Branch /\ C17_Copy]_vars

\* C17 witness: compressFile returned a Copied outcome after a buffer larger
\* than the original, and the output holds the input's bytes
C17_Witness ==
  /\ pc = "cf_ret"
  /\ cf.output # cf.input
  /\ cf.compressedSize > cf.originalSize
  /\ IsCopied(cf.result)
  /\ cf.output \in DOMAIN fs /\ cf.input \in DOMAIN fs
  /\ fs[cf.output] = fs[cf.input]
  /\ fs[cf.input] = fs0[cf.input]

(***************************************************************************)
(* Errors of compressFile in the loop of processFiles                      *)
(***************************************************************************)
RawCodes == {"ENOENT", "EACCES", "EISDIR"}

\* An error leaves compressFile with the input's base name and a reason
\* that is classified: never one of the raw codes the catch translates
C18_Throw ==
  (pc # "cf_throw" /\ pc' = "cf_throw") =>
     /\ cf'.thrown.base = <<Basename(cf.input)>>
     /\ cf'.thrown.text # ""
     /\ cf'.thrown.text \notin RawCodes

\* The loop's catch gives the candidate in hand one Failed outcome carrying
\* that message, and goes on to the next candidate
C18_Catch ==
  (pc = "cf_throw" /\ caller = "files") =>
     /\ Len(ledger') = Len(ledger) + 1
     /\ SubSeq(ledger', 1, Len(ledger)) = ledger
     /\ idx' = idx + 1
     /\ LET r == ledger'[Len(ledger')]
        IN  /\ r.input = files[idx]
            /\ IsFailed(r)
            /\ r.error.base = <<Basename(files[idx])>>
            /\ r.error.text = cf.thrown.text
            /\ ~r.success /\ ~r.copied /\ ~r.skipped

\* An outcome, once in the ledger, stays as it is, and is never both Failed
\* and Compressed or Copied
C18_OneOutcome ==
  /\ Len(ledger') \in {Len(ledger), Len(ledger) + 1}
  /\ SubSeq(ledger', 1, Len(ledger)) = ledger
  /\ \A k \in 1..Len(ledger') : ~(IsFailed(ledger'[k]) /\ ledger'[k].success)

\* C18: when a step of compressFile raises an error for a candidate of the
\* loop of processFiles, the candidate gets exactly one outcome, Failed, whose
\* message carries the input's base name and a classified reason, and never
\* a Compressed or Copied outcome as well.
C18_FailedOutcome == [][C18_Throw /\ C18_Catch /\ C18_OneOutcome]_vars

\* C18 witness: a finished run whose ledger holds a Failed outcome
\* 'Permission denied' with the base name, and a successful outcome for
\* another candidate
C18_Witness ==
  /\ pc = "done" /\ Len(ledger) = 2
  /\ \E j, k \in 1..2 :
       /\ ledger[j].error = Err("Permission denied", <<Basename(files[j])>>)
       /\ ~ledger[j].success
       /\ ledger[k].success

(***************************************************************************)
(* An in-place replacement stopped at any point                            *)
(***************************************************************************)
\* The steps of the in-place replacement, its failure handling and its end
Replacing ==
  InPlace /\ pc \in {"cf_wtemp", "cf_unlink", "cf_rename", "cf_cleanup", "cf_ret", "cf_throw"}

\* C19: at every state of the write-temp, delete-original, rename-temp
\* sequence of an in-place replacement, its failure handling included, the
\* original path holds a complete file, or the temporary file holds the
\* complete replacement: a process killed there leaves one of the two.
C19_NeverBothGone ==
  Replacing =>
    \/ cf.input \in DOMAIN fs /\ fs[cf.input].k # "partial"
    \/ LET tempPath == WithTag(cf.output, "tmp")
       IN  tempPath \in DOMAIN fs /\ fs[tempPath] = Encoded(cf.input, cf.compressedSize)

(***************************************************************************)
(* Output paths of one run                                                 *)
(***************************************************************************)
\* C20: in a run of processFiles without replace, two outcomes for distinct
\* candidates that were written (Compressed or Copied) never have the same
\* output path, so no candidate's output is overwritten by a later one's.
C20_DistinctOutputs ==
  ~opts.replace =>
     \A j, k \in 1..Len(ledger) :
        (/\ j # k
         /\ ledger[j].input # ledger[k].input
         /\ ledger[j].success /\ ledger[k].success) =>
           ledger[j].outputPath # ledger[k].outputPath

(***************************************************************************)
(* The filesystem after a failure before the buffer exists                 *)
(***************************************************************************)
\* No outcome of the ledger comes from an earlier call of compressFile, so
\* the files and directories were those of the start when this call began
FirstCall ==
  \A k \in 1..Len(ledger) : ~ledger[k].success /\ ledger[k].error.base = <<>>

\* C21: when compressFile, called with an output path other than the input,
\* has failed before the encoded buffer exists (the input is missing, or the
\* metadata read or the encoding failed), the files and the directories are
\* what they were when it was called: no output file and no output
\* directory has been created.
C21_FailureLeavesNothing ==
  (pc = "cf_throw" /\ cf.output # cf.input /\ cf.compressedSize = Unset /\ FirstCall) =>
     fs = fs0 /\ dirs = dirs0

=============================================================================
